---- MODULE Spec2Model ----
(***************************************************************************)
(* Gacha system: Player (account), SimpleGachaMachine (reward pool),       *)
(* GachaService (draw transaction) and EventDispatcher (event bus).        *)
(***************************************************************************)
EXTENDS Integers, Sequences, FiniteSets, TLC

VARIABLES
  player,      \* the Player entity: gachaCurrency, inventory, events
  eventSeq,    \* number of DomainEvent objects constructed so far
  last,        \* the last call made, with the player's state before it
  ops,         \* number of calls made on the player and the service so far
  handlers,    \* EventDispatcher.handlers: event name -> handlers, in registration order
  task,        \* the dispatchEntityEvents call in progress: where it is suspended
  batch,       \* the array the last direct call of getEvents returned to its caller
  stats        \* GachaExecutedHandler.playerStatsCache: the entry of the player

vars == <<player, eventSeq, last, ops, handlers, task, batch, stats>>

---------------------------------------------------------------------------
(* Bounds of the model *)

\* calls on the player explored per behaviour of the account machine
MaxOps == 4
\* draws, registrations and dispatchEntityEvents calls per behaviour of the bus machine
MaxBusDraws == 2
MaxHandlers == 2
MaxDispatches == 2
\* the random value Math.random() * totalWeight is modelled in 1/Scale units
Scale == 2

---------------------------------------------------------------------------
(* Program constants *)

GachaCost == 100
DemoCurrency == 2000

PlayerId == "player_001"

\* SimpleGachaMachine.initializeGachaPool
gachaPool ==
  << [id |-> "potion_001", rarity |-> "N",   weight |-> 25],
     [id |-> "bread_001",  rarity |-> "N",   weight |-> 25],
     [id |-> "sword_001",  rarity |-> "R",   weight |-> 15],
     [id |-> "shield_001", rarity |-> "R",   weight |-> 15],
     [id |-> "bow_001",    rarity |-> "SR",  weight |-> 8],
     [id |-> "staff_001",  rarity |-> "SR",  weight |-> 7],
     [id |-> "sword_002",  rarity |-> "SSR", weight |-> 4],
     [id |-> "sword_999",  rarity |-> "UR",  weight |-> 1] >>

\* Rarity.VALID_RARITIES
VALID_RARITIES == <<"N", "R", "SR", "SSR", "UR">>
\* the values a Rarity object can hold: create accepts no other
Rarities == {VALID_RARITIES[i] : i \in 1..Len(VALID_RARITIES)}

---------------------------------------------------------------------------
(* Inputs the calls are tried with *)

InitialCurrencies == {0, DemoCurrency}
Amounts == {-50, 0, 100}
Reasons == {"shop", "unknown"}
\* items handed to addItem / removeItem directly (id and rarity of a GachaItem)
DirectItems == {[id |-> "sword_999", rarity |-> "UR"]}
\* the event names handlers are registered for, and the handler objects registered
EventKinds == {"CurrencySpent", "GachaExecuted", "ItemObtained"}
HandlerIds == {"h1", "h2"}

---------------------------------------------------------------------------
(* Domain events: DomainEvent and its three subclasses *)

CurrencySpentEvent(eid, playerId, amount, remainingBalance, spendingReason) ==
  [eventId |-> eid, eventName |-> "CurrencySpent", playerId |-> playerId,
   amount |-> amount, remainingBalance |-> remainingBalance,
   spendingReason |-> spendingReason]

GachaExecutedEvent(eid, playerId, gachaCost, executionType) ==
  [eventId |-> eid, eventName |-> "GachaExecuted", playerId |-> playerId,
   gachaCost |-> gachaCost, executionType |-> executionType]

ItemObtainedEvent(eid, playerId, itemId, rarity, isFirstTime) ==
  [eventId |-> eid, eventName |-> "ItemObtained", playerId |-> playerId,
   itemId |-> itemId, rarity |-> rarity, isFirstTime |-> isFirstTime]

---------------------------------------------------------------------------
(* Player: each method is a function from the entity's state to the        *)
(* outcome of the call: err is "none" or names the throw that ended it,    *)
(* p is the entity's state when the call returned or threw.                *)

Returned(p) == [err |-> "none", p |-> p]
Thrown(e, p) == [err |-> e, p |-> p]

NewPlayer(gachaCurrency) ==
  [gachaCurrency |-> gachaCurrency, inventory |-> <<>>, events |-> <<>>]

\* GachaItem.equals: identity is the id alone
equals(a, b) == a.id = b.id

hasItem(p, item) ==
  \E i \in 1..Len(p.inventory) : equals(p.inventory[i], item)

\* addItem without the duplicate rule
addItemNoCheck(p, item) ==
  Returned([p EXCEPT !.inventory = Append(@, item)])

addItem(p, item) ==
  IF hasItem(p, item)
    THEN Thrown("AlreadyOwned", p)
    ELSE Returned([p EXCEPT !.inventory = Append(@, item)])

\* removeItem that empties the inventory
removeItemAll(p, item) ==
  IF ~hasItem(p, item)
    THEN Thrown("NotOwned", p)
    ELSE Returned([p EXCEPT !.inventory = <<>>])

removeItem(p, item) ==
  IF ~hasItem(p, item)
    THEN Thrown("NotOwned", p)
    ELSE LET kept == SelectSeq(p.inventory, LAMBDA x : ~equals(x, item))
         IN  IF Len(kept) = Len(p.inventory)
               THEN Thrown("RemoveFailed", [p EXCEPT !.inventory = kept])
               ELSE Returned([p EXCEPT !.inventory = kept])

\* addCurrency without the validation of the amount
addCurrencyNoCheck(p, amount) ==
  Returned([p EXCEPT !.gachaCurrency = @ + amount])

\* addCurrency that records an event of its own
addCurrencyWithEvent(p, amount) ==
  IF amount < 0
    THEN Thrown("InvalidAmount", p)
    ELSE Returned([p EXCEPT
           !.gachaCurrency = @ + amount,
           !.events = Append(@, [eventId |-> 0, eventName |-> "CurrencyAdded",
                                 playerId |-> PlayerId, amount |-> amount])])

addCurrency(p, amount) ==
  IF amount < 0
    THEN Thrown("InvalidAmount", p)
    ELSE Returned([p EXCEPT !.gachaCurrency = @ + amount])

\* addEvent that puts the event at the head of the queue (unshift)
addEventUnshift(p, event) == [p EXCEPT !.events = <<event>> \o @]

addEvent(p, event) == [p EXCEPT !.events = Append(@, event)]

\* spendCurrency without the balance rule
spendCurrencyNoFundsCheck(p, amount, reason, eid) ==
  IF amount < 0
    THEN Thrown("InvalidAmount", p)
    ELSE LET q == [p EXCEPT !.gachaCurrency = @ - amount]
         IN  Returned(addEvent(q,
               CurrencySpentEvent(eid, PlayerId, amount, q.gachaCurrency, reason)))

\* spendCurrency that builds the event before it decrements the balance
spendCurrencyStaleBalance(p, amount, reason, eid) ==
  IF amount < 0
    THEN Thrown("InvalidAmount", p)
  ELSE IF p.gachaCurrency < amount
    THEN Thrown("InsufficientFunds", p)
  ELSE LET q == [p EXCEPT !.gachaCurrency = @ - amount]
       IN  Returned(addEvent(q,
             CurrencySpentEvent(eid, PlayerId, amount, p.gachaCurrency, reason)))

\* spendCurrency that refuses to spend the whole balance
spendCurrencyStrict(p, amount, reason, eid) ==
  IF amount < 0
    THEN Thrown("InvalidAmount", p)
  ELSE IF p.gachaCurrency <= amount
    THEN Thrown("InsufficientFunds", p)
  ELSE LET q == [p EXCEPT !.gachaCurrency = @ - amount]
       IN  Returned(addEvent(q,
             CurrencySpentEvent(eid, PlayerId, amount, q.gachaCurrency, reason)))

spendCurrency(p, amount, reason, eid) ==
  IF amount < 0
    THEN Thrown("InvalidAmount", p)
  ELSE IF p.gachaCurrency < amount
    THEN Thrown("InsufficientFunds", p)
  ELSE LET q == [p EXCEPT !.gachaCurrency = @ - amount]
       IN  Returned(addEvent(q,
             CurrencySpentEvent(eid, PlayerId, amount, q.gachaCurrency, reason)))

\* canAffordGacha that accepts every cost
canAffordGachaAlways(p, cost) == TRUE

canAffordGacha(p, cost) == p.gachaCurrency >= cost /\ cost >= 0

\* a copy that misses the newest event
getEventsDropsLast(p) == SubSeq(p.events, 1, Len(p.events) - 1)

\* a copy in reverse order: the newest event first
getEventsReversed(p) ==
  [i \in 1..Len(p.events) |-> p.events[Len(p.events) + 1 - i]]

getEvents(p) == p.events

\* clearEvents that resets the inventory together with the queue
clearEventsAndInventory(p) == [p EXCEPT !.events = <<>>, !.inventory = <<>>]

clearEvents(p) == [p EXCEPT !.events = <<>>]

---------------------------------------------------------------------------
(* SimpleGachaMachine.draw *)

RECURSIVE SumWeights(_)
SumWeights(i) ==
  IF i = 0 THEN 0 ELSE SumWeights(i - 1) + gachaPool[i].weight

totalWeight == SumWeights(Len(gachaPool))

\* the values Math.random() * totalWeight takes, in 1/Scale units: [0, totalWeight)
RandomValues == 0..(totalWeight * Scale - 1)

\* the values the draws of the account machine are tried with: the lowest value,
\* a value on an entry's upper boundary, a value just above a boundary, the highest
DrawSamples == {0, 50 * Scale, 80 * Scale + 1, totalWeight * Scale - 1}

\* the loop with randomValue < currentWeight: a boundary value goes to the later entry
RECURSIVE drawLoopStrict(_, _, _)
drawLoopStrict(i, currentWeight, randomValue) ==
  IF i > Len(gachaPool)
    THEN 0
    ELSE LET cw == currentWeight + gachaPool[i].weight
         IN  IF randomValue < cw * Scale
               THEN i
               ELSE drawLoopStrict(i + 1, cw, randomValue)

\* the loop comparing with each entry's own weight, without accumulating
RECURSIVE drawLoopNoAccumulate(_, _, _)
drawLoopNoAccumulate(i, currentWeight, randomValue) ==
  IF i > Len(gachaPool)
    THEN 0
    ELSE IF randomValue <= gachaPool[i].weight * Scale
           THEN i
           ELSE drawLoopNoAccumulate(i + 1, currentWeight, randomValue)

\* the for loop of draw: index of the first entry with randomValue <= currentWeight,
\* or 0 when the loop ends without a match
RECURSIVE drawLoop(_, _, _)
drawLoop(i, currentWeight, randomValue) ==
  IF i > Len(gachaPool)
    THEN 0
    ELSE LET cw == currentWeight + gachaPool[i].weight
         IN  IF randomValue <= cw * Scale
               THEN i
               ELSE drawLoop(i + 1, cw, randomValue)

\* draw whose fallback is the last entry of the pool
drawFallbackLast(randomValue) ==
  LET i == drawLoop(1, 0, randomValue)
      poolItem == IF i = 0 THEN gachaPool[Len(gachaPool)] ELSE gachaPool[i]
  IN  [id |-> poolItem.id, rarity |-> poolItem.rarity]

draw(randomValue) ==
  LET i == drawLoop(1, 0, randomValue)
      poolItem == IF i = 0 THEN gachaPool[1] ELSE gachaPool[i]
  IN  [id |-> poolItem.id, rarity |-> poolItem.rarity]

---------------------------------------------------------------------------
(* GachaService *)

\* calculateSellPrice with a wrong price for the highest tier
calculateSellPriceWrongUR(rarity) ==
  CASE rarity = "N"   -> 10
    [] rarity = "R"   -> 50
    [] rarity = "SR"  -> 200
    [] rarity = "SSR" -> 1000
    [] rarity = "UR"  -> 500
    [] OTHER          -> 0

calculateSellPrice(rarity) ==
  CASE rarity = "N"   -> 10
    [] rarity = "R"   -> 50
    [] rarity = "SR"  -> 200
    [] rarity = "SSR" -> 1000
    [] rarity = "UR"  -> 5000
    [] OTHER          -> 0

\* the grant without the sell-back of a duplicate
grantDrawnItemNoSalvage(p, drawnItem, eid) ==
  LET isFirstTime == ~hasItem(p, drawnItem)
      granted == IF ~isFirstTime THEN Returned(p) ELSE addItem(p, drawnItem)
  IN  IF granted.err # "none"
        THEN granted
        ELSE Returned(addEvent(granted.p,
               ItemObtainedEvent(eid, PlayerId, drawnItem.id, drawnItem.rarity,
                                 isFirstTime)))

\* the grant that calls addItem without asking hasItem first: a duplicate throws
grantDrawnItemAlwaysAdds(p, drawnItem, eid) ==
  LET isFirstTime == ~hasItem(p, drawnItem)
      granted == addItem(p, drawnItem)
  IN  IF granted.err # "none"
        THEN granted
        ELSE Returned(addEvent(granted.p,
               ItemObtainedEvent(eid, PlayerId, drawnItem.id, drawnItem.rarity,
                                 isFirstTime)))

\* steps 4 and 5 of executeSingleGacha, after the item was drawn
grantDrawnItem(p, drawnItem, eid) ==
  LET isFirstTime == ~hasItem(p, drawnItem)
      granted == IF ~isFirstTime
                   THEN addCurrency(p, calculateSellPrice(drawnItem.rarity))
                   ELSE addItem(p, drawnItem)
  IN  IF granted.err # "none"
        THEN granted
        ELSE Returned(addEvent(granted.p,
               ItemObtainedEvent(eid, PlayerId, drawnItem.id, drawnItem.rarity,
                                 isFirstTime)))

\* executeSingleGacha that records GachaExecuted after the grant
executeSingleGachaEventLast(p, randomValue, eid) ==
  IF ~canAffordGacha(p, GachaCost)
    THEN Thrown("AffordabilityError", p)
    ELSE LET paid == spendCurrency(p, GachaCost, "gacha", eid)
             granted == grantDrawnItem(paid.p, draw(randomValue), eid + 1)
         IN  IF paid.err # "none" THEN paid
             ELSE IF granted.err # "none" THEN granted
             ELSE Returned(addEvent(granted.p,
                    GachaExecutedEvent(eid + 2, PlayerId, GachaCost, "single")))

executeSingleGacha(p, randomValue, eid) ==
  IF ~canAffordGacha(p, GachaCost)
    THEN Thrown("AffordabilityError", p)
    ELSE LET paid == spendCurrency(p, GachaCost, "gacha", eid)
         IN  IF paid.err # "none"
               THEN paid
               ELSE grantDrawnItem(
                      addEvent(paid.p,
                        GachaExecutedEvent(eid + 1, PlayerId, GachaCost, "single")),
                      draw(randomValue), eid + 2)

---------------------------------------------------------------------------
(* EventDispatcher *)

NoHandlers == [k \in EventKinds |-> <<>>]

\* no call of dispatchEntityEvents made yet; retryOf is the event at which the
\* call before the current one was rejected, 0 if it was not
IdleTask ==
  [pc |-> "idle", calls |-> 0, events |-> <<>>, drainedAt |-> 0, index |-> 0,
   pending |-> <<>>, settled |-> <<>>, failed |-> 0, error |-> 0,
   retryOf |-> 0]

subscribe(hs, eventName, handler) ==
  [hs EXCEPT ![eventName] = Append(@, handler)]

\* unsubscribe that removes the handler registered last only
unsubscribeLast(hs, eventName) ==
  [hs EXCEPT ![eventName] = SubSeq(@, 1, Len(@) - 1)]

\* handlers.delete(eventName): a name without an entry has no handlers
unsubscribe(hs, eventName) == [hs EXCEPT ![eventName] = <<>>]

\* handlers.clear()
clear(hs) == NoHandlers

hasHandlers(hs, eventName) == Len(hs[eventName]) > 0

\* dispatch that starts the handlers after the first one only
dispatchSkipsFirst(hs, event) ==
  LET eventHandlers == hs[event.eventName]
  IN  [i \in 1..(Len(eventHandlers) - 1) |->
        [handler |-> eventHandlers[i + 1], event |-> event, status |-> "running"]]

\* dispatch that hands an event nobody subscribed to to every registered handler
dispatchFallsBackToAll(hs, event) ==
  LET eventHandlers ==
        IF Len(hs[event.eventName]) > 0
          THEN hs[event.eventName]
          ELSE hs["CurrencySpent"] \o hs["GachaExecuted"] \o hs["ItemObtained"]
  IN  [i \in 1..Len(eventHandlers) |->
        [handler |-> eventHandlers[i], event |-> event, status |-> "running"]]

\* dispatch that starts the handlers last registered first
dispatchReversed(hs, event) ==
  LET eventHandlers == hs[event.eventName]
      n == Len(eventHandlers)
  IN  [i \in 1..n |->
        [handler |-> eventHandlers[n + 1 - i], event |-> event,
         status |-> "running"]]

\* dispatch up to its await: the handlers registered for the event's name are
\* looked up and handle(event) is called on each, in registration order; the
\* result is the list of the calls started, which Promise.all then awaits
dispatch(hs, event) ==
  LET eventHandlers == hs[event.eventName]
  IN  [i \in 1..Len(eventHandlers) |->
        [handler |-> eventHandlers[i], event |-> event, status |-> "running"]]

\* the loop of dispatchAll reaching event i of the batch: dispatch(events[i])
\* runs to its await
dispatchAllStep(t, hs, i) ==
  [t EXCEPT !.pc = "awaitDispatch", !.index = i, !.failed = 0,
            !.settled = <<>>, !.pending = dispatch(hs, t.events[i])]

\* dispatchEntityEvents without the return on an empty queue: it awaits
\* dispatchAll of nothing and then clears
dispatchEntityEventsNoEarlyReturn(t, hs, p) ==
  LET events == getEvents(p)
      called == [t EXCEPT !.calls = @ + 1, !.events = events, !.index = 0,
                          !.pending = <<>>, !.settled = <<>>, !.failed = 0,
                          !.error = 0,
                          !.retryOf = IF t.pc = "rejected" THEN t.index ELSE 0]
  IN  IF Len(events) = 0
        THEN [called EXCEPT !.pc = "awaitDispatchAll"]
        ELSE dispatchAllStep(called, hs, 1)

\* dispatchEntityEvents up to its first suspension
dispatchEntityEvents(t, hs, p) ==
  LET events == getEvents(p)
      called == [t EXCEPT !.calls = @ + 1, !.events = events, !.index = 0,
                          !.pending = <<>>, !.settled = <<>>, !.failed = 0,
                          !.error = 0,
                          !.retryOf = IF t.pc = "rejected" THEN t.index ELSE 0]
  IN  IF Len(events) = 0
        THEN [called EXCEPT !.pc = "resolved"]
        ELSE dispatchAllStep(called, hs, 1)

---------------------------------------------------------------------------
(* GachaExecutedHandler: the statistics it keeps for a player *)

\* getOrCreatePlayerStats: a player without an entry gets one of zeros
NoStats ==
  [totalGachaExecutions |-> 0, totalSpent |-> 0, singlePullCount |-> 0,
   tenPullCount |-> 0]

\* updateStatistics that counts the ten-pulls only
updateStatisticsTenPullOnly(st, event) ==
  [st EXCEPT !.totalGachaExecutions = @ + 1,
             !.totalSpent = @ + event.gachaCost,
             !.tenPullCount = IF event.executionType = "ten_pull" THEN @ + 1 ELSE @]

updateStatistics(st, event) ==
  [st EXCEPT !.totalGachaExecutions = @ + 1,
             !.totalSpent = @ + event.gachaCost,
             !.tenPullCount = IF event.executionType = "ten_pull" THEN @ + 1 ELSE @,
             !.singlePullCount = IF event.executionType = "ten_pull" THEN @ ELSE @ + 1]

---------------------------------------------------------------------------
(* The state machine of the account and the draw service *)

NoCall == [op |-> "new", arg |-> <<>>, err |-> "none", pre |-> NewPlayer(0)]

Call(op, arg, out, made) ==
  /\ player' = out.p
  /\ eventSeq' = eventSeq + made
  /\ last' = [op |-> op, arg |-> arg, err |-> out.err, pre |-> player]
  /\ ops' = ops + 1
  /\ UNCHANGED <<handlers, task, batch, stats>>

\* events the call appended (the model's count of constructed events)
Made(out) == IF Len(out.p.events) >= Len(player.events)
               THEN Len(out.p.events) - Len(player.events) ELSE 0

Init ==
  /\ \E c \in InitialCurrencies : player = NewPlayer(c)
  /\ eventSeq = 0
  /\ last = NoCall
  /\ ops = 0
  /\ handlers = NoHandlers
  /\ task = IdleTask
  /\ batch = <<>>
  /\ stats = NoStats

SpendCurrency ==
  /\ ops < MaxOps
  /\ \E amount \in Amounts, reason \in Reasons :
       LET out == spendCurrency(player, amount, reason, eventSeq + 1)
       IN  Call("spendCurrency", <<amount, reason>>, out, Made(out))

AddCurrency ==
  /\ ops < MaxOps
  /\ \E amount \in Amounts :
       Call("addCurrency", <<amount>>, addCurrency(player, amount), 0)

AddItem ==
  /\ ops < MaxOps
  /\ \E item \in DirectItems :
       Call("addItem", <<item>>, addItem(player, item), 0)

RemoveItem ==
  /\ ops < MaxOps
  /\ \E item \in DirectItems :
       Call("removeItem", <<item>>, removeItem(player, item), 0)

ExecuteSingleGacha ==
  /\ ops < MaxOps
  /\ \E randomValue \in DrawSamples :
       LET out == executeSingleGacha(player, randomValue, eventSeq + 1)
       IN  Call("executeSingleGacha", <<draw(randomValue)>>, out, Made(out))

CanAffordGacha ==
  /\ ops < MaxOps
  /\ \E cost \in Amounts :
       Call("canAffordGacha", <<cost, canAffordGacha(player, cost)>>,
            Returned(player), 0)

ClearEvents ==
  /\ ops < MaxOps
  /\ Call("clearEvents", <<>>, Returned(clearEvents(player)), 0)

Next ==
  \/ SpendCurrency
  \/ AddCurrency
  \/ AddItem
  \/ RemoveItem
  \/ ExecuteSingleGacha
  \/ CanAffordGacha
  \/ ClearEvents

Spec == Init /\ [][Next]_vars

---------------------------------------------------------------------------
(* The state machine of the event bus: one player, one dispatcher, at most *)
(* one dispatchEntityEvents call in progress. Every await of the           *)
(* dispatcher is a point where other calls may run.                        *)

Registered == Len(handlers["CurrencySpent"]) + Len(handlers["GachaExecuted"])
                + Len(handlers["ItemObtained"])

BusStep(op, arg) ==
  /\ last' = [op |-> op, arg |-> arg, err |-> "none", pre |-> player]
  /\ UNCHANGED <<eventSeq, ops, batch, stats>>

Subscribe ==
  /\ Registered < MaxHandlers
  /\ \E eventName \in EventKinds, handler \in HandlerIds :
       /\ handlers' = subscribe(handlers, eventName, handler)
       /\ BusStep("subscribe", <<eventName, handler>>)
  /\ UNCHANGED <<player, task>>

\* the caller awaits a call before it makes the next one
DispatchEntityEvents ==
  /\ task.pc \in {"idle", "resolved", "rejected"}
  /\ task.calls < MaxDispatches
  /\ task' = [dispatchEntityEvents(task, handlers, player)
                 EXCEPT !.drainedAt = eventSeq]
  /\ IF Len(getEvents(player)) = 0
       THEN BusStep("dispatchEntityEvents", <<>>)
       ELSE BusStep("dispatch", <<getEvents(player)[1]>>)
  /\ UNCHANGED <<player, handlers>>

\* handlers that are cancelled when their dispatch fails: none settles afterwards
HandlerSettlesCancelled ==
  /\ task.pc = "awaitDispatch"
  /\ \E i \in 1..Len(task.pending), outcome \in {"done", "failed"} :
       /\ task.pending[i].status = "running"
       /\ task' = [task EXCEPT
                     !.pending[i].status = outcome,
                     !.settled = Append(@, <<i, outcome>>),
                     !.failed = IF outcome = "failed" /\ @ = 0 THEN i ELSE @]
       /\ BusStep("handle", <<i, outcome>>)
  /\ UNCHANGED <<player, handlers>>

\* a handler that was started returns or throws; handlers left running by a
\* dispatch that has already failed still run to their end. Promise.all keeps
\* the first rejection (failed); settled is the order the calls ended in
HandlerSettles ==
  /\ task.pc \in {"awaitDispatch", "rejected"}
  /\ \E i \in 1..Len(task.pending), outcome \in {"done", "failed"} :
       /\ task.pending[i].status = "running"
       /\ task' = [task EXCEPT
                     !.pending[i].status = outcome,
                     !.settled = Append(@, <<i, outcome>>),
                     !.failed = IF outcome = "failed" /\ @ = 0 THEN i ELSE @]
       /\ BusStep("handle", <<i, outcome>>)
  /\ UNCHANGED <<player, handlers>>

\* a dispatch with a timeout: it can reject while its handlers are still running
DispatchRejectsOnTimeout ==
  /\ task.pc = "awaitDispatch"
  /\ Len(task.pending) > 0
  /\ task' = [task EXCEPT !.pc = "rejected",
                          !.error = IF task.failed = 0 THEN 1 ELSE task.failed]
  /\ BusStep("reject", <<task.index, task.failed>>)
  /\ UNCHANGED <<player, handlers>>

\* a failure that takes the events already delivered out of the queue
DispatchRejectsDropsDelivered ==
  /\ task.pc = "awaitDispatch"
  /\ task.failed # 0
  /\ task' = [task EXCEPT !.pc = "rejected", !.error = task.failed]
  /\ player' = [player EXCEPT !.events = SubSeq(@, task.index, Len(@))]
  /\ BusStep("reject", <<task.index, task.failed>>)
  /\ UNCHANGED handlers

\* a clearEvents in a finally block: the queue is emptied on failure as well
DispatchRejectsClears ==
  /\ task.pc = "awaitDispatch"
  /\ task.failed # 0
  /\ task' = [task EXCEPT !.pc = "rejected", !.error = task.failed]
  /\ player' = clearEvents(player)
  /\ BusStep("reject", <<task.index, task.failed>>)
  /\ UNCHANGED handlers

\* Promise.all rejects at the first handler failure: dispatch, dispatchAll and
\* dispatchEntityEvents rethrow it (error names the handler call that threw)
DispatchRejects ==
  /\ task.pc = "awaitDispatch"
  /\ task.failed # 0
  /\ task' = [task EXCEPT !.pc = "rejected", !.error = task.failed]
  /\ BusStep("reject", <<task.index, task.failed>>)
  /\ UNCHANGED <<player, handlers>>

\* a Promise.race in the place of Promise.all: one handler's return is enough
AnyDone ==
  \/ Len(task.pending) = 0
  \/ \E i \in 1..Len(task.pending) : task.pending[i].status = "done"

\* a Promise.allSettled in the place of Promise.all: failures do not reject
AllSettled ==
  \A i \in 1..Len(task.pending) : task.pending[i].status \in {"done", "failed"}

AllDone ==
  \A i \in 1..Len(task.pending) : task.pending[i].status = "done"

\* a loop that does not await dispatch: events.forEach(e => this.dispatch(e))
DispatchNextNoAwait ==
  /\ task.pc = "awaitDispatch"
  /\ task.index < Len(task.events)
  /\ task' = dispatchAllStep(task, handlers, task.index + 1)
  /\ BusStep("dispatch", <<task.events[task.index + 1]>>)
  /\ UNCHANGED <<player, handlers>>

\* Promise.all resolves (or dispatch returned at once, without handlers): the
\* loop of dispatchAll goes on to the next event
DispatchNext ==
  /\ task.pc = "awaitDispatch"
  /\ AllDone
  /\ task.index < Len(task.events)
  /\ task' = dispatchAllStep(task, handlers, task.index + 1)
  /\ BusStep("dispatch", <<task.events[task.index + 1]>>)
  /\ UNCHANGED <<player, handlers>>

\* the dispatch of the last event resolved: dispatchAll returns
DispatchAllReturns ==
  /\ task.pc = "awaitDispatch"
  /\ AllDone
  /\ task.index = Len(task.events)
  /\ task' = [task EXCEPT !.pc = "awaitDispatchAll"]
  /\ BusStep("dispatchAll", <<>>)
  /\ UNCHANGED <<player, handlers>>

\* dispatchEntityEvents that returns without clearing the entity's events
DispatchEntityEventsReturnsNoClear ==
  /\ task.pc = "awaitDispatchAll"
  /\ task' = [task EXCEPT !.pc = "resolved"]
  /\ BusStep("clearEvents", <<>>)
  /\ UNCHANGED <<player, handlers>>

\* dispatchEntityEvents resumes after dispatchAll and clears the entity's events
DispatchEntityEventsReturns ==
  /\ task.pc = "awaitDispatchAll"
  /\ task' = [task EXCEPT !.pc = "resolved"]
  /\ player' = clearEvents(player)
  /\ BusStep("clearEvents", <<>>)
  /\ UNCHANGED handlers

BusDraw ==
  /\ ops < MaxBusDraws
  /\ LET out == executeSingleGacha(player, totalWeight * Scale - 1, eventSeq + 1)
     IN  Call("executeSingleGacha", <<draw(totalWeight * Scale - 1)>>, out, Made(out))

InitBus == Init /\ player = NewPlayer(DemoCurrency)

NextBus ==
  \/ Subscribe
  \/ DispatchEntityEvents
  \/ HandlerSettles
  \/ DispatchRejects
  \/ DispatchNext
  \/ DispatchAllReturns
  \/ DispatchEntityEventsReturns
  \/ BusDraw

SpecBus == InitBus /\ [][NextBus]_vars

\* the event loop runs every continuation that is ready: a promise that
\* settled resumes the function awaiting it
SpecBusFair ==
  /\ SpecBus
  /\ WF_vars(DispatchNext)
  /\ WF_vars(DispatchAllReturns)
  /\ WF_vars(DispatchEntityEventsReturns)

---------------------------------------------------------------------------
(* The registry of the event bus: handlers are subscribed and taken back,  *)
(* and single events are handed to dispatch directly.                      *)

\* one event of each kind, as a draw of the demo's player records them
SampleEvent(eventName) ==
  CASE eventName = "CurrencySpent" ->
         CurrencySpentEvent(0, PlayerId, GachaCost, DemoCurrency - GachaCost, "gacha")
    [] eventName = "GachaExecuted" ->
         GachaExecutedEvent(0, PlayerId, GachaCost, "single")
    [] eventName = "ItemObtained" ->
         ItemObtainedEvent(0, PlayerId, "sword_999", "UR", TRUE)

Unsubscribe ==
  /\ \E eventName \in EventKinds :
       /\ handlers' = unsubscribe(handlers, eventName)
       /\ BusStep("unsubscribe", <<eventName>>)
  /\ UNCHANGED <<player, task>>

Clear ==
  /\ handlers' = clear(handlers)
  /\ BusStep("clear", <<>>)
  /\ UNCHANGED <<player, task>>

\* dispatch(event) called directly, up to its await; of the calls made only the
\* latest is followed
Dispatch ==
  /\ task.calls < MaxDispatches
  /\ \E eventName \in EventKinds :
       /\ task' = dispatchAllStep(
                     [IdleTask EXCEPT !.calls = task.calls + 1,
                                      !.events = <<SampleEvent(eventName)>>],
                     handlers, 1)
       /\ BusStep("dispatch", <<SampleEvent(eventName)>>)
  /\ UNCHANGED <<player, handlers>>

NextRegistry ==
  \/ Subscribe
  \/ Unsubscribe
  \/ Clear
  \/ Dispatch

SpecRegistry == InitBus /\ [][NextRegistry]_vars

---------------------------------------------------------------------------
(* The loop of the demo with one GachaExecutedHandler subscribed: a draw,  *)
(* then dispatchEntityEvents awaited to its end, then the next draw.       *)

InitStats ==
  /\ \E c \in InitialCurrencies : player = NewPlayer(c)
  /\ eventSeq = 0
  /\ last = NoCall
  /\ ops = 0
  /\ handlers = subscribe(NoHandlers, "GachaExecuted", "gachaExecutedHandler")
  /\ task = IdleTask
  /\ batch = <<>>
  /\ stats = NoStats

\* the next draw of the loop: the dispatch of the one before has returned
LoopDraw ==
  /\ task.pc \in {"idle", "resolved"}
  /\ player.events = <<>>
  /\ ops < MaxBusDraws
  /\ \E randomValue \in DrawSamples :
       LET out == executeSingleGacha(player, randomValue, eventSeq + 1)
       IN  Call("executeSingleGacha", <<draw(randomValue)>>, out, Made(out))

\* handle(event) of the GachaExecutedHandler runs to its end: the statistics
\* of the event's player are updated and the call returns
GachaExecutedHandlerHandles ==
  /\ task.pc = "awaitDispatch"
  /\ \E i \in 1..Len(task.pending) :
       /\ task.pending[i].status = "running"
       /\ task.pending[i].handler = "gachaExecutedHandler"
       /\ stats' = updateStatistics(stats, task.pending[i].event)
       /\ task' = [task EXCEPT !.pending[i].status = "done",
                               !.settled = Append(@, <<i, "done">>)]
       /\ last' = [op |-> "handle", arg |-> <<i, "done">>, err |-> "none",
                   pre |-> player]
  /\ UNCHANGED <<player, eventSeq, ops, handlers, batch>>

NextStats ==
  \/ LoopDraw
  \/ DispatchEntityEvents
  \/ GachaExecutedHandlerHandles
  \/ DispatchNext
  \/ DispatchAllReturns
  \/ DispatchEntityEventsReturns

SpecStats == InitStats /\ [][NextStats]_vars

---------------------------------------------------------------------------
(* The state machine of a caller that reads and clears the queue itself:   *)
(* getEvents hands out a copy, which later calls on the player leave alone *)

GetEvents ==
  /\ ops < MaxOps
  /\ batch' = getEvents(player)
  /\ last' = [op |-> "getEvents", arg |-> <<>>, err |-> "none", pre |-> player]
  /\ ops' = ops + 1
  /\ UNCHANGED <<player, eventSeq, handlers, task, stats>>

NextDrain ==
  \/ GetEvents
  \/ SpendCurrency
  \/ ExecuteSingleGacha
  \/ ClearEvents

SpecDrain == Init /\ [][NextDrain]_vars

---------------------------------------------------------------------------
(* Constructors and pure functions: the Player constructor, the walk of    *)
(* draw over every random value, and Rarity.isHigherThan. A string that    *)
(* is validated is a sequence of characters.                               *)

Whitespace == {" "}

\* the ids and names the constructor is tried with: empty, blank, plain, padded
Texts == {<<>>, <<" ">>, <<" ", " ">>, <<"p">>, <<" ", "p", " ">>}
StartCurrencies == {-1, 0, DemoCurrency}

\* String.prototype.trim
RECURSIVE trimStart(_)
trimStart(str) ==
  IF Len(str) > 0 /\ Head(str) \in Whitespace THEN trimStart(Tail(str)) ELSE str

RECURSIVE trimEnd(_)
trimEnd(str) ==
  IF Len(str) > 0 /\ str[Len(str)] \in Whitespace
    THEN trimEnd(SubSeq(str, 1, Len(str) - 1))
    ELSE str

trim(str) == trimEnd(trimStart(str))

\* the constructor without trim: only the empty string is refused
PlayerConstructorNoTrim(id, playerName, gachaCurrency) ==
  IF id = <<>>
    THEN Thrown("Player ID cannot be empty", NewPlayer(0))
  ELSE IF playerName = <<>>
    THEN Thrown("Player name cannot be empty", NewPlayer(0))
  ELSE IF gachaCurrency < 0
    THEN Thrown("Gacha currency cannot be negative", NewPlayer(0))
  ELSE Returned(NewPlayer(gachaCurrency))

\* new Player(id, playerName, gachaCurrency): on a throw no player exists,
\* and p is a placeholder
PlayerConstructor(id, playerName, gachaCurrency) ==
  IF id = <<>> \/ trim(id) = <<>>
    THEN Thrown("Player ID cannot be empty", NewPlayer(0))
  ELSE IF playerName = <<>> \/ trim(playerName) = <<>>
    THEN Thrown("Player name cannot be empty", NewPlayer(0))
  ELSE IF gachaCurrency < 0
    THEN Thrown("Gacha currency cannot be negative", NewPlayer(0))
  ELSE Returned(NewPlayer(gachaCurrency))

\* Array.prototype.indexOf, counted from 0; -1 when absent
indexOf(arr, value) ==
  IF \E i \in 1..Len(arr) : arr[i] = value
    THEN (CHOOSE i \in 1..Len(arr) :
            arr[i] = value /\ \A j \in 1..(i - 1) : arr[j] # value) - 1
    ELSE -1

\* isHigherThan with >= in the place of >
isHigherThanOrSame(this, other) ==
  indexOf(VALID_RARITIES, this) >= indexOf(VALID_RARITIES, other)

isHigherThan(this, other) ==
  indexOf(VALID_RARITIES, this) > indexOf(VALID_RARITIES, other)

ValueStep(op, arg, err) ==
  /\ last' = [op |-> op, arg |-> arg, err |-> err, pre |-> player]
  /\ UNCHANGED <<eventSeq, ops, handlers, task, batch, stats>>

\* a failed construction leaves the caller with the player it had
ConstructPlayer ==
  \E id \in Texts, playerName \in Texts, gachaCurrency \in StartCurrencies :
    LET out == PlayerConstructor(id, playerName, gachaCurrency)
    IN  /\ player' = IF out.err = "none" THEN out.p ELSE player
        /\ ValueStep("constructor", <<id, playerName, gachaCurrency>>, out.err)

Draw ==
  /\ \E randomValue \in RandomValues :
       ValueStep("draw", <<randomValue, draw(randomValue)>>, "none")
  /\ UNCHANGED player

IsHigherThan ==
  /\ \E this \in Rarities, other \in Rarities :
       ValueStep("isHigherThan", <<this, other, isHigherThan(this, other)>>, "none")
  /\ UNCHANGED player

\* amounts spent and balances left, on both sides of every threshold
SpentAmounts == {0, 1, 99, 100, 499, 500, 999, 1000, 4999, 5000, 5001}
RemainingBalances == {0, 1, 99, 100, 101, 5000}

\* CurrencySpentEvent.isLowBalance
isLowBalance(remainingBalance, warningThreshold) ==
  remainingBalance <= warningThreshold

\* Math.min
Min(a, b) == IF a <= b THEN a ELSE b

\* getImportanceLevel without the rule for a balance of zero
getImportanceLevelNoZeroRule(amount, remainingBalance) ==
  LET byAmount == IF amount >= 5000 THEN 8
                  ELSE IF amount >= 1000 THEN 6
                  ELSE IF amount >= 500 THEN 4
                  ELSE IF amount >= 100 THEN 2
                  ELSE 1
      raised == IF isLowBalance(remainingBalance, 100) THEN byAmount + 2
                ELSE byAmount
  IN  Min(raised, 10)

\* CurrencySpentEvent.getImportanceLevel; isLowBalance() is called with its
\* default threshold of 100
getImportanceLevel(amount, remainingBalance) ==
  LET byAmount == IF amount >= 5000 THEN 8
                  ELSE IF amount >= 1000 THEN 6
                  ELSE IF amount >= 500 THEN 4
                  ELSE IF amount >= 100 THEN 2
                  ELSE 1
      raised == IF isLowBalance(remainingBalance, 100) THEN byAmount + 2
                ELSE byAmount
      level == IF remainingBalance = 0 THEN 10 ELSE raised
  IN  Min(level, 10)

GetImportanceLevel ==
  /\ \E amount \in SpentAmounts, remainingBalance \in RemainingBalances :
       ValueStep("getImportanceLevel",
                 <<amount, remainingBalance,
                   getImportanceLevel(amount, remainingBalance)>>, "none")
  /\ UNCHANGED player

NextValues ==
  \/ ConstructPlayer
  \/ Draw
  \/ IsHigherThan
  \/ GetImportanceLevel

SpecValues == Init /\ [][NextValues]_vars

---------------------------------------------------------------------------
(* Vocabulary of the properties *)

DrawSucceeded == last.op = "executeSingleGacha" /\ last.err = "none"

\* the item the last draw sampled
Drawn == last.arg[1]

\* the events added to the queue by the last call
Appended ==
  SubSeq(player.events, Len(last.pre.events) + 1, Len(player.events))

KeptQueue ==
  /\ Len(player.events) >= Len(last.pre.events)
  /\ SubSeq(player.events, 1, Len(last.pre.events)) = last.pre.events

EventNames(evs) == [i \in 1..Len(evs) |-> evs[i].eventName]

\* an event without its identity
Payload(e) == [f \in DOMAIN e \ {"eventId"} |-> e[f]]

Payloads(evs) == [i \in 1..Len(evs) |-> Payload(evs[i])]

OwnedIds(p) == {p.inventory[i].id : i \in 1..Len(p.inventory)}

\* the salvage value of a tier, as the data model states it
SalvageValue ==
  [N |-> 10, R |-> 50, SR |-> 200, SSR |-> 1000, UR |-> 5000]

---------------------------------------------------------------------------
---------------------------------------------------------------------------
(* C2: a draw that cannot be funded (the cost exceeds the balance) fails   *)
(* with the affordability error and leaves balance, owned items and event  *)
(* queue as they were; the affordability test itself rejects every         *)
(* negative cost and every cost above the balance, changing nothing.       *)
C2_UnaffordableDrawChangesNothing ==
  /\ (last.op = "executeSingleGacha" /\ last.pre.gachaCurrency < GachaCost) =>
       /\ last.err = "AffordabilityError"
       /\ player = last.pre
  /\ (/\ last.op = "canAffordGacha"
      /\ (last.arg[1] < 0 \/ last.arg[1] > last.pre.gachaCurrency)) =>
       /\ last.arg[2] = FALSE
       /\ player = last.pre

C2_Witness ==
  /\ last.op = "executeSingleGacha"
  /\ last.err = "AffordabilityError"
  /\ last.pre.gachaCurrency < GachaCost
  /\ Len(last.pre.events) > 0

---------------------------------------------------------------------------
(* C3: in every reachable state, whatever calls were made and whether they *)
(* failed or not, the balance is an integer >= 0.                          *)
C3_BalanceNonNegative == player.gachaCurrency \in Nat

C3_Witness ==
  /\ last.op = "spendCurrency"
  /\ last.err = "InsufficientFunds"
  /\ player.gachaCurrency = 0
  /\ ops >= 2

---------------------------------------------------------------------------
(* C4: a debit with 0 <= amount <= balance succeeds, sets the balance to   *)
(* balance_before - amount and appends exactly one CurrencySpent event     *)
(* with that amount, the new balance and the given reason; an event that   *)
(* stays in the queue is the same record after any later call.             *)
C4_DebitEffect ==
  /\ (/\ last.op = "spendCurrency"
      /\ 0 <= last.arg[1]
      /\ last.arg[1] <= last.pre.gachaCurrency) =>
       /\ last.err = "none"
       /\ player.gachaCurrency = last.pre.gachaCurrency - last.arg[1]
       /\ player.inventory = last.pre.inventory
       /\ KeptQueue
       /\ Len(Appended) = 1
       /\ Appended[1].eventName = "CurrencySpent"
       /\ Appended[1].amount = last.arg[1]
       /\ Appended[1].remainingBalance = player.gachaCurrency
       /\ Appended[1].spendingReason = last.arg[2]
  /\ \A i \in 1..Len(last.pre.events), j \in 1..Len(player.events) :
       last.pre.events[i].eventId = player.events[j].eventId =>
         last.pre.events[i] = player.events[j]

C4_Witness ==
  /\ last.op = "spendCurrency"
  /\ last.err = "none"
  /\ last.arg[1] > 0
  /\ \E i \in 1..Len(last.pre.events) :
       /\ last.pre.events[i].eventName = "CurrencySpent"
       /\ last.pre.events[i].remainingBalance # player.gachaCurrency

---------------------------------------------------------------------------
(* C5: a debit fails exactly when amount < 0 (invalid amount) or           *)
(* amount > balance (insufficient funds); a failed debit changes neither   *)
(* balance nor owned items and appends no event.                           *)
C5_DebitFailure ==
  last.op = "spendCurrency" =>
    /\ last.err # "none" <=>
         (last.arg[1] < 0 \/ last.arg[1] > last.pre.gachaCurrency)
    /\ last.arg[1] < 0 => last.err = "InvalidAmount"
    /\ (last.arg[1] >= 0 /\ last.arg[1] > last.pre.gachaCurrency) =>
         last.err = "InsufficientFunds"
    /\ last.err # "none" => player = last.pre

C5_Witness ==
  /\ last.op = "spendCurrency"
  /\ last.err = "InsufficientFunds"
  /\ Len(last.pre.events) > 0
  /\ Len(last.pre.inventory) > 0

---------------------------------------------------------------------------
(* C6: a credit fails without any change when amount < 0; otherwise it     *)
(* adds exactly amount to the balance and leaves the event queue and the   *)
(* owned items as they were.                                               *)
C6_CreditEffect ==
  last.op = "addCurrency" =>
    IF last.arg[1] < 0
      THEN last.err # "none" /\ player = last.pre
      ELSE /\ last.err = "none"
           /\ player.gachaCurrency = last.pre.gachaCurrency + last.arg[1]
           /\ player.events = last.pre.events
           /\ player.inventory = last.pre.inventory

C6_Witness ==
  /\ last.op = "addCurrency"
  /\ last.err = "none"
  /\ last.arg[1] > 0
  /\ Len(player.events) > 0
  /\ Len(player.inventory) > 0

---------------------------------------------------------------------------
(* C7: in every reachable state no two owned items have the same id.       *)
C7_NoDuplicateItems ==
  \A i, j \in 1..Len(player.inventory) :
    i # j => player.inventory[i].id # player.inventory[j].id

C7_Witness ==
  /\ Len(player.inventory) >= 2
  /\ \/ last.op = "addItem" /\ last.err = "AlreadyOwned"
     \/ DrawSucceeded /\ Drawn.id \in OwnedIds(last.pre)

---------------------------------------------------------------------------
(* C8: a draw that samples an owned item leaves the items unchanged,       *)
(* credits exactly the salvage value of the item's tier and records        *)
(* firstTime = false; a draw that samples an item not owned adds it,       *)
(* credits nothing and records firstTime = true.                           *)
C8_DuplicatePolicy ==
  DrawSucceeded =>
    /\ \E k \in 1..Len(Appended) :
         /\ Appended[k].eventName = "ItemObtained"
         /\ Appended[k].itemId = Drawn.id
         /\ Appended[k].rarity = Drawn.rarity
         /\ Appended[k].isFirstTime = (Drawn.id \notin OwnedIds(last.pre))
    /\ Cardinality({k \in 1..Len(Appended) :
                      Appended[k].eventName = "ItemObtained"}) = 1
    /\ IF Drawn.id \in OwnedIds(last.pre)
         THEN /\ player.inventory = last.pre.inventory
              /\ player.gachaCurrency =
                   last.pre.gachaCurrency - GachaCost + SalvageValue[Drawn.rarity]
         ELSE /\ player.inventory = Append(last.pre.inventory, Drawn)
              /\ player.gachaCurrency = last.pre.gachaCurrency - GachaCost

C8_Witness ==
  /\ DrawSucceeded
  /\ Drawn.id \in OwnedIds(last.pre)
  /\ Drawn.rarity = "SR"
  /\ player.gachaCurrency = last.pre.gachaCurrency + 100

---------------------------------------------------------------------------
(* C9: from balance 2000, cost 100, the UR entry sampled twice.            *)
UR == [id |-> "sword_999", rarity |-> "UR"]

FirstDrawOfScenario ==
  /\ DrawSucceeded
  /\ Drawn = UR
  /\ last.pre = NewPlayer(2000)

SecondDrawOfScenario ==
  /\ DrawSucceeded
  /\ Drawn = UR
  /\ last.pre.gachaCurrency = 1900
  /\ last.pre.inventory = <<UR>>

Debited1900 ==
  [eventName |-> "CurrencySpent", playerId |-> PlayerId, amount |-> 100,
   remainingBalance |-> 1900, spendingReason |-> "gacha"]

Executed100 ==
  [eventName |-> "GachaExecuted", playerId |-> PlayerId, gachaCost |-> 100,
   executionType |-> "single"]

GrantedUR(firstTime) ==
  [eventName |-> "ItemObtained", playerId |-> PlayerId, itemId |-> "sword_999",
   rarity |-> "UR", isFirstTime |-> firstTime]

ScenarioSecondDraw ==
  SecondDrawOfScenario =>
    /\ player.gachaCurrency = 6800
    /\ Len(player.inventory) = Len(last.pre.inventory)
    /\ \E k \in 1..Len(Appended) : Payload(Appended[k]) = GrantedUR(FALSE)

---------------------------------------------------------------------------
(* C10: fan-out of one dispatch.                                           *)

\* the last step called dispatch(event): task.pending holds the calls of
\* handle it made, and the registrations are those it read
Dispatched == last.op = "dispatch"

DispatchedEvent == last.arg[1]

\* the handlers registered for an event name
SubscribedTo(eventName) ==
  {handlers[eventName][i] : i \in 1..Len(handlers[eventName])}

\* how many times a handler is registered for an event name
Registrations(eventName, handler) ==
  Cardinality({i \in 1..Len(handlers[eventName]) :
                 handlers[eventName][i] = handler})

\* how many times the dispatch called handle(event) on a handler
Invocations(handler, event) ==
  Cardinality({i \in 1..Len(task.pending) :
                 /\ task.pending[i].handler = handler
                 /\ task.pending[i].event = event})

OnlyTheEventIsDelivered ==
  \A i \in 1..Len(task.pending) : task.pending[i].event = DispatchedEvent

(* C10 as stated: dispatch(event) invokes every handler subscribed to the  *)
(* event's kind exactly once with that event, and invokes no handler       *)
(* subscribed only to a different kind. subscribe does not deduplicate, so *)
(* a handler registered twice for the kind is invoked twice.               *)
C10_ExactlyOnce ==
  Dispatched =>
    /\ OnlyTheEventIsDelivered
    /\ \A h \in HandlerIds :
         Invocations(h, DispatchedEvent) =
           IF h \in SubscribedTo(DispatchedEvent.eventName) THEN 1 ELSE 0

(* C10, amended: dispatch(event) invokes every handler subscribed to the   *)
(* event's kind exactly once per registration for that kind, with that     *)
(* event, and invokes no handler that is not subscribed to that kind.      *)
C10_OncePerRegistration ==
  Dispatched =>
    /\ OnlyTheEventIsDelivered
    /\ \A h \in HandlerIds :
         Invocations(h, DispatchedEvent) =
           Registrations(DispatchedEvent.eventName, h)

C10_Witness ==
  /\ Dispatched
  /\ SubscribedTo(DispatchedEvent.eventName) = {"h1"}
  /\ \E k \in EventKinds \ {DispatchedEvent.eventName} : "h2" \in SubscribedTo(k)
  /\ Len(task.pending) = 1
  /\ task.index > 1

(* C11: dispatch of an event whose kind has no registered handler          *)
(* completes successfully without invoking any handler: no call is         *)
(* pending, nothing has failed, the dispatch cannot reject, and the batch  *)
(* can go on at once (to its next event, or to the return of dispatchAll). *)
C11_NoHandlersNoBlock ==
  (Dispatched /\ handlers[DispatchedEvent.eventName] = <<>>) =>
    /\ task.pc = "awaitDispatch"
    /\ task.pending = <<>>
    /\ task.failed = 0
    /\ ~ ENABLED DispatchRejects
    /\ ~ ENABLED HandlerSettles
    /\ ENABLED (DispatchNext \/ DispatchAllReturns)

\* an event without handlers in the middle of a batch whose first event had one
C11_Witness ==
  /\ Dispatched
  /\ handlers[DispatchedEvent.eventName] = <<>>
  /\ handlers[task.events[1].eventName] # <<>>
  /\ task.index > 1
  /\ task.index < Len(task.events)

\* the step in which the dispatch of the current event resolves
DispatchResolves ==
  /\ task.pc = "awaitDispatch"
  /\ task'.calls = task.calls
  /\ task'.pc = "awaitDispatchAll" \/ task'.index = task.index + 1

\* the step in which the dispatch of the current event rejects
DispatchFails == task.pc = "awaitDispatch" /\ task'.pc = "rejected"

HandlerFailed == \E i \in 1..Len(task.pending) : task.pending[i].status = "failed"

\* the handler call whose failure came first, 0 if none failed
FirstFailure(settled) ==
  LET failures == {k \in 1..Len(settled) : settled[k][2] = "failed"}
  IN  IF failures = {} THEN 0
      ELSE settled[CHOOSE k \in failures : \A j \in failures : k <= j][1]

(* C12: a dispatch resolves only in a state where every handler call it    *)
(* started has returned; once a handler call has failed the dispatch can   *)
(* no longer resolve and can reject, and when it rejects the error is that *)
(* of the handler call that failed first.                                  *)
C12_DispatchAwaitsAll ==
  /\ [][/\ DispatchResolves =>
             \A i \in 1..Len(task.pending) : task.pending[i].status = "done"
        /\ DispatchFails =>
             /\ task'.error # 0
             /\ task'.error = FirstFailure(task.settled)]_vars
  /\ []((task.pc = "awaitDispatch" /\ HandlerFailed) =>
         /\ ENABLED DispatchRejects
         /\ ~ ENABLED (DispatchNext \/ DispatchAllReturns))

\* both handlers of the event threw, the second one first
C12_Witness ==
  /\ task.pc = "rejected"
  /\ task.settled = <<<<2, "failed">>, <<1, "failed">>>>
  /\ task.error = 2

\* the handler calls in flight all carry the event the batch has reached
InFlightForCurrentEvent ==
  \A j \in 1..Len(task.pending) : task.pending[j].event = task.events[task.index]

(* C13: within one dispatchAll batch the events are delivered one at a     *)
(* time, in batch order: the batch starts at its first event, moves on by  *)
(* exactly one event, and only from a state where every handler call of    *)
(* the current event has returned; the handler calls in flight are always  *)
(* those of the single event the batch has reached.                        *)
C13_OneEventAtATime ==
  /\ [][/\ (task'.calls = task.calls /\ task'.index # task.index) =>
             /\ task'.index = task.index + 1
             /\ task.pc = "awaitDispatch"
             /\ \A j \in 1..Len(task.pending) : task.pending[j].status = "done"
        /\ task'.calls # task.calls =>
             task'.index = IF Len(task'.events) = 0 THEN 0 ELSE 1]_vars
  /\ [](task.pc \in {"awaitDispatch", "rejected"} => InFlightForCurrentEvent)

\* the second event's handler runs after the first event's handler returned
C13_Witness ==
  /\ task.pc = "awaitDispatch"
  /\ task.index = 2
  /\ handlers[task.events[1].eventName] # <<>>
  /\ Len(task.pending) = 1
  /\ task.pending[1].status = "running"

\* the handler calls started, without their progress
Started(pending) ==
  [j \in 1..Len(pending) |-> <<pending[j].handler, pending[j].event>>]

(* C14: once a handler call of event k has failed, the call of             *)
(* dispatchEntityEvents never moves past event k, starts no further        *)
(* handler call and never resolves; when it is rejected, its error is the  *)
(* error of a failed handler call of event k, and stays that error.        *)
C14_FailureStopsBatch ==
  /\ [][(HandlerFailed /\ task'.calls = task.calls) =>
          /\ task'.index = task.index
          /\ Started(task'.pending) = Started(task.pending)
          /\ task'.pc \in {"awaitDispatch", "rejected"}
          /\ task.pc = "rejected" =>
               (task'.pc = "rejected" /\ task'.error = task.error)]_vars
  /\ [](task.pc = "rejected" =>
         /\ task.error \in 1..Len(task.pending)
         /\ task.pending[task.error].status = "failed"
         /\ task.pending[task.error].event = task.events[task.index])

\* the first event's dispatch failed; a later event has a handler that is never called
C14_Witness ==
  /\ task.pc = "rejected"
  /\ task.index = 1
  /\ Len(task.events) > 1
  /\ handlers[task.events[2].eventName] # <<>>
  /\ last.op = "reject"

\* the step keeps the events queued before it, in their order
QueueKeptByStep ==
  /\ Len(player'.events) >= Len(player.events)
  /\ SubSeq(player'.events, 1, Len(player.events)) = player.events

(* C15: dispatchEntityEvents empties the queue only when it returns after  *)
(* dispatchAll resolved, that is after the dispatch of every event of the  *)
(* batch resolved; after a failed call the queue still starts with the     *)
(* whole batch.                                                            *)
C15_ClearOnlyOnSuccess ==
  /\ [][~ QueueKeptByStep =>
          /\ task.pc = "awaitDispatchAll"
          /\ task'.pc = "resolved"
          /\ player'.events = <<>>]_vars
  /\ [](task.pc = "awaitDispatchAll" =>
         /\ task.index = Len(task.events)
         /\ \A j \in 1..Len(task.pending) : task.pending[j].status = "done")
  /\ [](task.pc = "rejected" =>
         /\ Len(player.events) >= Len(task.events)
         /\ SubSeq(player.events, 1, Len(task.events)) = task.events)

\* a failed call, and a draw made since it drained: batch and new events are queued
C15_Witness ==
  /\ task.pc = "rejected"
  /\ task.events # <<>>
  /\ Len(player.events) > Len(task.events)

\* the last call recorded at least one event
Recorded ==
  /\ last.op \in {"spendCurrency", "executeSingleGacha"}
  /\ last.err = "none"
  /\ Len(Appended) > 0

Range(seq) == {seq[i] : i \in 1..Len(seq)}

CallCompleted == last.op = "clearEvents" /\ task.pc = "resolved"

(* C17: no event is lost or duplicated across a drain: once a call of      *)
(* dispatchEntityEvents has completed, every event that was queued, also   *)
(* one recorded while the call was suspended awaiting a handler, has been  *)
(* delivered by the call or is still in the queue; the batch holds no      *)
(* event twice and no event recorded after the call read the queue.        *)
(* The code clears the whole queue after the await, so an event recorded   *)
(* during the suspension is removed without having been delivered.         *)
C17_NoEventLost ==
  /\ CallCompleted =>
       \A e \in Range(last.pre.events) :
         e \in Range(task.events) \/ e \in Range(player.events)
  /\ \A i, j \in 1..Len(task.events) :
       task.events[i] = task.events[j] => i = j
  /\ \A e \in Range(task.events) : e.eventId <= task.drainedAt

\* the last call was addItem or a draw, of an item passed or sampled
Granting == last.op \in {"addItem", "executeSingleGacha"}

\* the owned ids are those before the call, or those plus a granted id that
\* was not owned
OwnedKeptOrGrown ==
  /\ OwnedIds(last.pre) \subseteq OwnedIds(player)
  /\ OwnedIds(player) # OwnedIds(last.pre) =>
       /\ Granting
       /\ last.err = "none"
       /\ last.arg[1].id \notin OwnedIds(last.pre)
       /\ OwnedIds(player) = OwnedIds(last.pre) \cup {last.arg[1].id}

(* C18 as stated: across any sequence of operations the set of owned item  *)
(* ids never shrinks, and it grows only by the grant of an item that was   *)
(* not owned. Player.removeItem removes an owned item.                     *)
C18_NeverShrinks == OwnedKeptOrGrown

(* C18, amended: the set of owned item ids shrinks only by removeItem of   *)
(* an owned item, which removes exactly that id; every other operation     *)
(* keeps the set or, granting an item that was not owned, adds its id.     *)
C18_ShrinksOnlyByRemoveItem ==
  IF last.op = "removeItem" /\ last.err = "none"
    THEN /\ last.arg[1].id \in OwnedIds(last.pre)
         /\ OwnedIds(player) = OwnedIds(last.pre) \ {last.arg[1].id}
    ELSE OwnedKeptOrGrown

\* an owned item was removed and another item is still owned
C18_Witness ==
  /\ last.op = "removeItem"
  /\ last.err = "none"
  /\ OwnedIds(player) # {}

(* C19: the queue of pending events is append-only until it is cleared:    *)
(* every call on the player other than clearEvents, whether it succeeds or *)
(* throws, leaves the events already queued in place and in order and     *)
(* adds new ones only at the end; clearEvents alone removes events, and    *)
(* removes them all.                                                       *)
C19_AppendOnly ==
  IF last.op = "clearEvents"
    THEN player.events = <<>>
    ELSE KeptQueue

\* a debit added its event behind the three events of an earlier draw
C19_Witness ==
  /\ last.op = "spendCurrency"
  /\ last.err = "none"
  /\ Len(last.pre.events) >= 3
  /\ last.pre.events[3].eventName = "ItemObtained"
  /\ Len(player.events) = Len(last.pre.events) + 1

(* C20: when dispatch reaches its await, the handler calls it started are  *)
(* the handlers registered for the event's kind, in registration order,    *)
(* and every one of them is running: all are started before any is waited  *)
(* for. A handler that was started can then return or throw whatever the   *)
(* progress of the others, so they complete in any order.                  *)
C20_StartedInOrderTogether ==
  /\ Dispatched =>
       /\ task.pc = "awaitDispatch"
       /\ [j \in 1..Len(task.pending) |-> task.pending[j].handler] =
            handlers[DispatchedEvent.eventName]
       /\ \A j \in 1..Len(task.pending) : task.pending[j].status = "running"
  /\ (task.pc = "awaitDispatch" /\
      \E j \in 1..Len(task.pending) : task.pending[j].status = "running") =>
       ENABLED HandlerSettles

\* two different handlers of one event: the one registered second returned
\* while the one registered first is still running
C20_Witness ==
  /\ task.pc = "awaitDispatch"
  /\ Len(task.pending) = 2
  /\ task.pending[1].handler # task.pending[2].handler
  /\ task.pending[1].status = "running"
  /\ task.pending[2].status = "done"

HandlerRunning == \E j \in 1..Len(task.pending) : task.pending[j].status = "running"

(* C21: a handler failure is reported at once and cancels nothing: as soon *)
(* as one handler call has failed the dispatch can reject, whatever the    *)
(* other calls are doing; the rejection leaves the handler calls as they   *)
(* are, and a call still running after it can go on to return or throw.    *)
C21_FailFastNoCancel ==
  /\ [][DispatchFails => task'.pending = task.pending]_vars
  /\ []((task.pc = "awaitDispatch" /\ HandlerFailed /\ HandlerRunning) =>
         ENABLED DispatchRejects)
  /\ []((task.pc = "rejected" /\ HandlerRunning) => ENABLED HandlerSettles)

\* the second handler returned after the dispatch had failed on the first
C21_Witness ==
  /\ task.pc = "rejected"
  /\ last.op = "handle"
  /\ last.arg = <<2, "done">>
  /\ task.settled = <<<<1, "failed">>, <<2, "done">>>>
  /\ task.error = 1

\* the dispatch of the current event waits for a handler, and none has failed
Stalled == task.pc = "awaitDispatch" /\ HandlerRunning /\ ~ HandlerFailed

(* C22: there is no cancellation and no timeout: while a handler call of   *)
(* event i is running and none has failed, the dispatch can neither        *)
(* resolve nor reject, dispatchAll cannot return and dispatchEntityEvents  *)
(* cannot clear the queue; as long as that lasts, the batch stays at event *)
(* i with the same handler calls and the queue loses no event.             *)
C22_NoTimeout ==
  /\ [](Stalled =>
         ~ ENABLED (DispatchNext \/ DispatchAllReturns \/ DispatchRejects
                      \/ DispatchEntityEventsReturns))
  /\ [][(Stalled /\ Stalled') =>
          /\ task'.calls = task.calls
          /\ task'.index = task.index
          /\ Started(task'.pending) = Started(task.pending)
          /\ QueueKeptByStep]_vars

\* handler 2 returned, handler 1 has not: a draw went by and the batch is at event 1
C22_Witness ==
  /\ Stalled
  /\ task.index = 1
  /\ Len(task.events) = 3
  /\ task.settled = <<<<2, "done">>>>
  /\ last.op = "executeSingleGacha"

\* the steps of the dispatcher delivering events
DeliveryOps ==
  {"dispatchEntityEvents", "dispatch", "handle", "reject", "dispatchAll",
   "clearEvents"}

(* C23: event delivery changes nothing of the account but its queue: every *)
(* step of dispatch, dispatchAll and dispatchEntityEvents, on the way to   *)
(* success or to failure, leaves the balance and the owned items as they   *)
(* were, so what a completed draw did stays when delivery fails.           *)
C23_DeliveryKeepsAccount ==
  last.op \in DeliveryOps =>
    /\ player.gachaCurrency = last.pre.gachaCurrency
    /\ player.inventory = last.pre.inventory

\* the delivery of a draw's events failed: the debit and the item are still there
C23_Witness ==
  /\ last.op = "reject"
  /\ task.pc = "rejected"
  /\ player.gachaCurrency = DemoCurrency - GachaCost
  /\ OwnedIds(player) = {UR.id}

Constructed == last.op = "constructor"

(* C24 as stated: construction fails when the id is empty, the name is     *)
(* empty or the initial balance is negative, and succeeds otherwise with   *)
(* the given balance, no owned items and an empty queue. The constructor   *)
(* also refuses an id or a name made of whitespace only.                   *)
C24_FailsOnlyOnEmpty ==
  Constructed =>
    IF last.arg[1] = <<>> \/ last.arg[2] = <<>> \/ last.arg[3] < 0
      THEN last.err # "none"
      ELSE /\ last.err = "none"
           /\ player = [gachaCurrency |-> last.arg[3], inventory |-> <<>>,
                        events |-> <<>>]

\* a text with no character other than whitespace
Blank(str) == \A i \in 1..Len(str) : str[i] \in Whitespace

(* C24, amended: construction fails when the id is empty or blank, the     *)
(* name is empty or blank, or the initial balance is negative, and         *)
(* succeeds otherwise with the given balance, no owned items and an empty  *)
(* queue.                                                                  *)
C24_FailsOnEmptyOrBlank ==
  Constructed =>
    IF Blank(last.arg[1]) \/ Blank(last.arg[2]) \/ last.arg[3] < 0
      THEN last.err # "none" /\ player = last.pre
      ELSE /\ last.err = "none"
           /\ player = [gachaCurrency |-> last.arg[3], inventory |-> <<>>,
                        events |-> <<>>]

\* a padded id and name are accepted, with the demo's balance
C24_Witness ==
  /\ Constructed
  /\ last.arg = <<<<" ", "p", " ">>, <<" ", "p", " ">>, DemoCurrency>>
  /\ last.err = "none"
  /\ player.gachaCurrency = DemoCurrency

Sampled == last.op = "draw"

\* the value drawn and the item returned for it
SampleValue == last.arg[1]
SampleResult == last.arg[2]

PoolItem(i) == [id |-> gachaPool[i].id, rarity |-> gachaPool[i].rarity]

\* the first entry, in pool order, whose cumulative weight is >= the value
FirstCovering(randomValue) ==
  CHOOSE i \in 1..Len(gachaPool) :
    /\ SumWeights(i) * Scale >= randomValue
    /\ \A j \in 1..(i - 1) : SumWeights(j) * Scale < randomValue

(* C25: for every value r in [0, totalWeight), draw returns the first      *)
(* entry of the pool, in insertion order, whose cumulative weight is >= r; *)
(* a value exactly on a boundary selects the earlier entry.                *)
C25_FirstCoveringEntry ==
  Sampled => SampleResult = PoolItem(FirstCovering(SampleValue))

\* the value on the boundary between the first two entries gives the first
C25_Witness ==
  /\ Sampled
  /\ SampleValue = gachaPool[1].weight * Scale
  /\ SampleResult = PoolItem(1)

(* C26: the weights of the pool are all positive, and for every value in   *)
(* [0, totalWeight) the walk of draw matches an entry, so the fallback is  *)
(* not taken; for a value the walk does not match, draw returns the first  *)
(* entry of the pool and does not fail.                                    *)
C26_FallbackUnreached ==
  /\ \A i \in 1..Len(gachaPool) : gachaPool[i].weight > 0
  /\ Sampled => drawLoop(1, 0, SampleValue) \in 1..Len(gachaPool)
  /\ drawLoop(1, 0, totalWeight * Scale + 1) = 0
  /\ draw(totalWeight * Scale + 1) = PoolItem(1)

\* the highest value of the range is matched by the last entry
C26_Witness ==
  /\ Sampled
  /\ SampleValue = totalWeight * Scale - 1
  /\ drawLoop(1, 0, SampleValue) = Len(gachaPool)

\* the place in the pool of an item draw returned
PoolIndex(item) == CHOOSE i \in 1..Len(gachaPool) : PoolItem(i) = item

\* the entry the next value of the range is mapped to; past the range, none
NextIndex(randomValue) ==
  IF randomValue + 1 \in RandomValues
    THEN PoolIndex(draw(randomValue + 1))
    ELSE Len(gachaPool) + 1

(* C27: the portion of the range [0, totalWeight) that draw maps to an     *)
(* entry is one interval whose length is exactly the entry's weight, so a  *)
(* uniform value selects the entry with probability weight/totalWeight:    *)
(* going up the range the entries follow each other in pool order without  *)
(* a gap, and where the portion of an entry ends (at a value that is the   *)
(* last one mapped to it, or at the open end of the range) the previous    *)
(* entry's portion ends exactly weight below, the first one starting at 0. *)
C27_PortionIsWeight ==
  Sampled =>
    LET i == PoolIndex(SampleResult)
        upper == IF SampleValue + 1 \in RandomValues
                   THEN SampleValue ELSE SampleValue + 1
        lower == upper - gachaPool[i].weight * Scale
    IN  /\ NextIndex(SampleValue) \in {i, i + 1}
        /\ NextIndex(SampleValue) = i + 1 =>
             IF i = 1
               THEN lower = 0
               ELSE /\ lower \in RandomValues
                    /\ PoolIndex(draw(lower)) = i - 1
                    /\ NextIndex(lower) = i

\* the last value mapped to the fifth entry: its portion starts 8 below
C27_Witness ==
  /\ Sampled
  /\ PoolIndex(SampleResult) = 5
  /\ NextIndex(SampleValue) = 6
  /\ PoolIndex(draw(SampleValue - gachaPool[5].weight * Scale)) = 4

(* C28: every successful draw appends exactly three events to the queue,   *)
(* one of each kind (CurrencySpent, GachaExecuted, ItemObtained), all with *)
(* the player's id; the sell-back of a duplicate adds no event.            *)
C28_ThreeEventsPerDraw ==
  DrawSucceeded =>
    /\ KeptQueue
    /\ Len(Appended) = 3
    /\ {Appended[k].eventName : k \in 1..3} = EventKinds
    /\ \A k \in 1..3 : Appended[k].playerId = PlayerId

\* a duplicate was sold back (the balance rose) and three events were added
C28_Witness ==
  /\ DrawSucceeded
  /\ Drawn.id \in OwnedIds(last.pre)
  /\ player.gachaCurrency > last.pre.gachaCurrency
  /\ Len(Appended) = 3

(* C30: a draw is all-or-nothing on the player: it throws only when the    *)
(* cost cannot be afforded, and then the player is as before the call;     *)
(* once the affordability check has passed nothing throws, and the call    *)
(* applies the debit, the outcome of the grant (the item added, or the     *)
(* sell-back of a duplicate credited) and all three events.                *)
C30_AllOrNothing ==
  last.op = "executeSingleGacha" =>
    IF last.err # "none"
      THEN /\ ~ canAffordGacha(last.pre, GachaCost)
           /\ player = last.pre
      ELSE /\ canAffordGacha(last.pre, GachaCost)
           /\ KeptQueue
           /\ Len(Appended) = 3
           /\ IF Drawn.id \in OwnedIds(last.pre)
                THEN /\ player.inventory = last.pre.inventory
                     /\ player.gachaCurrency =
                          last.pre.gachaCurrency - GachaCost
                            + SalvageValue[Drawn.rarity]
                ELSE /\ player.inventory = Append(last.pre.inventory, Drawn)
                     /\ player.gachaCurrency = last.pre.gachaCurrency - GachaCost

\* the balance was exactly the cost and the item was a duplicate: the draw went through
C30_Witness ==
  /\ DrawSucceeded
  /\ last.pre.gachaCurrency = GachaCost
  /\ Drawn.id \in OwnedIds(last.pre)
  /\ player.gachaCurrency = SalvageValue[Drawn.rarity]

\* the order of the tiers: N < R < SR < SSR < UR
TierRank == [r \in Rarities |->
               CASE r = "N" -> 1 [] r = "R" -> 2 [] r = "SR" -> 3
                 [] r = "SSR" -> 4 [] r = "UR" -> 5]

(* C29: isHigherThan is the strict total order N < R < SR < SSR < UR: it   *)
(* answers true exactly when this tier comes after the other one, it is    *)
(* irreflexive, asymmetric and transitive, and of two distinct tiers       *)
(* exactly one is higher than the other.                                   *)
C29_StrictTotalOrder ==
  /\ last.op = "isHigherThan" =>
       last.arg[3] = (TierRank[last.arg[1]] > TierRank[last.arg[2]])
  /\ \A a \in Rarities : ~ isHigherThan(a, a)
  /\ \A a, b \in Rarities : isHigherThan(a, b) => ~ isHigherThan(b, a)
  /\ \A a, b, c \in Rarities :
       (isHigherThan(a, b) /\ isHigherThan(b, c)) => isHigherThan(a, c)
  /\ \A a, b \in Rarities :
       a # b => (isHigherThan(a, b) # isHigherThan(b, a))

\* the two highest tiers compared: UR is higher than SSR
C29_Witness ==
  /\ last.op = "isHigherThan"
  /\ last.arg = <<"UR", "SSR", TRUE>>

\* the caller calls dispatchEntityEvents again after a call that was rejected
Retry == task.pc = "rejected" /\ task'.calls = task.calls + 1

(* C31: after a call of dispatchEntityEvents failed on event k the queue   *)
(* still starts with the whole batch in its order, so the next call reads  *)
(* a batch that starts with the old one and delivers it again from its     *)
(* first event: the handlers of event 1 are started once more, and events  *)
(* 1..k-1, already delivered, are delivered a second time.                 *)
C31_RetryRedelivers ==
  /\ [](task.pc = "rejected" =>
         /\ Len(player.events) >= Len(task.events)
         /\ SubSeq(player.events, 1, Len(task.events)) = task.events)
  /\ [][Retry =>
          /\ Len(task'.events) >= Len(task.events)
          /\ SubSeq(task'.events, 1, Len(task.events)) = task.events
          /\ task'.pc = "awaitDispatch"
          /\ task'.index = 1
          /\ Started(task'.pending) =
               [j \in 1..Len(handlers[task.events[1].eventName]) |->
                  <<handlers[task.events[1].eventName][j], task.events[1]>>]]_vars

\* the first call failed on its second event; in the retry the handler of the
\* first event, which had returned, is running again
C31_Witness ==
  /\ task.calls = 2
  /\ task.retryOf = 2
  /\ task.pc = "awaitDispatch"
  /\ task.index = 1
  /\ Len(task.pending) = 1
  /\ task.pending[1].status = "running"

\* the events follow each other in the order they were constructed
InRecordedOrder(evs) ==
  \A i, j \in 1..Len(evs) : i < j => evs[i].eventId < evs[j].eventId

(* C32: dispatchEntityEvents delivers the events in the order they were    *)
(* recorded: the queue and the batch read from it are in recording order,  *)
(* the batch is the queue as it was when the call read it, and the event   *)
(* being delivered is the one at the place the batch has reached, so every *)
(* event of an earlier draw is dispatched before any event of a later one. *)
C32_RecordedOrder ==
  /\ InRecordedOrder(player.events)
  /\ InRecordedOrder(task.events)
  /\ (Dispatched /\ task.index = 1) => task.events = player.events
  /\ Dispatched => DispatchedEvent = task.events[task.index]
  /\ task.pc \in {"awaitDispatch", "rejected"} => InFlightForCurrentEvent

\* two draws were made before the call: it has reached the first event of the second
C32_Witness ==
  /\ Dispatched
  /\ Len(task.events) = 6
  /\ task.index = 4
  /\ DispatchedEvent.eventId = 4
  /\ DispatchedEvent.eventName = "CurrencySpent"

\* the call has returned: every event of its batch was dispatched, every
\* handler call of the last one returned, and the queue is empty
Completed ==
  /\ task.pc = "resolved"
  /\ last.op = "clearEvents"
  /\ task.index = Len(task.events)
  /\ \A j \in 1..Len(task.pending) : task.pending[j].status = "done"
  /\ player.events = <<>>

(* C33: if every handler call that is started eventually ends and none     *)
(* fails, a call of dispatchEntityEvents that is suspended eventually      *)
(* returns successfully, with every event of its batch delivered to the    *)
(* handlers of its kind and the queue cleared.                             *)
C33_EventuallyCompleted ==
  (WF_vars(HandlerSettles) /\ [] ~ HandlerFailed) =>
    ((task.pc = "awaitDispatch") ~> Completed)

\* a batch of three events was delivered, a handler ran, and the call returned
C33_Witness ==
  /\ Completed
  /\ Len(task.events) = 3
  /\ Len(task.settled) > 0

\* dispatchEntityEvents is called on an entity without events
CalledOnEmptyQueue == task'.calls = task.calls + 1 /\ player.events = <<>>

(* C34: dispatchEntityEvents on an entity whose queue is empty is a        *)
(* successful no-op: the call returns at once, no handler call is started, *)
(* and the queue, the player and the subscriptions are as before.          *)
C34_EmptyQueueNoOp ==
  [][CalledOnEmptyQueue =>
       /\ task'.pc = "resolved"
       /\ task'.events = <<>>
       /\ task'.pending = <<>>
       /\ task'.error = 0
       /\ player' = player
       /\ handlers' = handlers]_vars

\* a second call, after the first delivered and cleared a draw's events
C34_Witness ==
  /\ last.op = "dispatchEntityEvents"
  /\ task.pc = "resolved"
  /\ task.calls = 2
  /\ task.events = <<>>
  /\ Registered > 0
  /\ eventSeq > 0

(* C35: unsubscribe(kind) removes every handler registered for the kind    *)
(* and leaves the handlers of the other kinds as they are; afterwards      *)
(* hasHandlers(kind) is false, and a dispatch of an event of a kind        *)
(* without handlers starts no handler call and can only succeed; clear()   *)
(* does the same for all kinds.                                            *)
C35_UnsubscribeRemovesAll ==
  /\ [][last'.op = "unsubscribe" =>
          /\ handlers'[last'.arg[1]] = <<>>
          /\ ~ hasHandlers(handlers', last'.arg[1])
          /\ \A k \in EventKinds \ {last'.arg[1]} : handlers'[k] = handlers[k]]_vars
  /\ [][last'.op = "clear" =>
          \A k \in EventKinds :
            handlers'[k] = <<>> /\ ~ hasHandlers(handlers', k)]_vars
  /\ []((Dispatched /\ ~ hasHandlers(handlers, DispatchedEvent.eventName)) =>
         /\ task.pending = <<>>
         /\ task.failed = 0
         /\ ~ ENABLED HandlerSettles
         /\ ~ ENABLED DispatchRejects
         /\ ENABLED DispatchAllReturns)

\* a kind that had two handlers, one of them started by a dispatch, has none
\* after unsubscribe
C35_Witness ==
  /\ last.op = "unsubscribe"
  /\ handlers[last.arg[1]] = <<>>
  /\ Len(task.pending) = 2
  /\ task.pending[1].event.eventName = last.arg[1]

\* the draws of the player that succeeded: each of them constructs three events
SuccessfulDraws == eventSeq \div 3

\* no draw and no dispatch is under way
LoopAtRest == task.pc \in {"idle", "resolved"} /\ player.events = <<>>

(* C36: with one GachaExecutedHandler subscribed, no handler failure and   *)
(* dispatchEntityEvents run to its end after each draw, the statistics of  *)
(* the player satisfy totalGachaExecutions = singlePullCount +             *)
(* tenPullCount and totalSpent = the sum of the costs of the draws         *)
(* counted; the draws counted are the successful draws of the player, all  *)
(* of them whenever the loop is at rest, all but the one being delivered   *)
(* in between.                                                             *)
C36_StatisticsMatchDraws ==
  /\ stats.totalGachaExecutions = stats.singlePullCount + stats.tenPullCount
  /\ stats.totalSpent = GachaCost * stats.totalGachaExecutions
  /\ stats.totalGachaExecutions \in {SuccessfulDraws - 1, SuccessfulDraws}
  /\ LoopAtRest => stats.totalGachaExecutions = SuccessfulDraws

\* two draws made and delivered
C36_Witness ==
  /\ LoopAtRest
  /\ last.op = "clearEvents"
  /\ stats.totalGachaExecutions = 2
  /\ stats.singlePullCount = 2
  /\ stats.totalSpent = 2 * GachaCost

(* C37: for every non-negative amount and remaining balance,               *)
(* getImportanceLevel returns an integer in 1..10, and returns 10 whenever *)
(* the remaining balance is 0.                                             *)
C37_ImportanceInRange ==
  last.op = "getImportanceLevel" =>
    /\ last.arg[3] \in 1..10
    /\ last.arg[2] = 0 => last.arg[3] = 10

\* a small amount that emptied the account
C37_Witness ==
  /\ last.op = "getImportanceLevel"
  /\ last.arg[1] = 1
  /\ last.arg[2] = 0
  /\ last.arg[3] = 10

====
